---- MODULE Spec2Model ----
(***************************************************************************)
(* Model of the BigQuery -> StarRocks loader of bq-exporter                *)
(* (StarRocksService.LoadFromBigQuery, ensureTable, evolveSchema,          *)
(* insertRows).  One load call is a sequence of steps between its blocking *)
(* calls: the warehouse query, each row pull, each destination statement   *)
(* and the commit.  The destination is modelled by what database/sql and   *)
(* the engine keep: the database, the table's columns, the rows staged in  *)
(* the open transaction and the rows committed.                            *)
(***************************************************************************)
EXTENDS Integers, Sequences, FiniteSets, TLC

\* ------------------------------------------------------------------ bounds
MaxRows == 4
MaxBatch == 2
MaxFields == 3
MaxEnvLen == 2

\* --------------------------------------------------------------- variables
VARIABLES
    req,         \* the export request: query, location, table, database
    runMode,     \* "server": the HTTP handler; "job": main in job mode
    resp,        \* what the caller gets: the HTTP response or the exit code
    pc,          \* position of the load call
    ctxDone,     \* the caller's context has been cancelled
    dbname,      \* StarRocksService.dbname (STARROCKS_DB)
    table,       \* the table identifier passed to LoadFromBigQuery
    createDDL,   \* the caller-supplied DDL ("" when absent)
    batchEnv,    \* the text of STARROCKS_BATCH_SIZE (<<>>: unset or empty)
    batchSize,   \* insertRows: the local variable batchSize
    qschema,     \* the schema of the query result
    nullRow,     \* the row of the result whose values are all NULL (0: none)
    itSchema,    \* it.Schema as the iterator reports it now
    pulled,      \* rows the iterator has handed out so far
    nextCalls,   \* calls of it.Next so far
    streamEnded, \* it.Next has returned iterator.Done or an error
    prefetch,    \* the row taken by the schema peek (0: none)
    havePrefetch,
    peekErr,     \* what the peek's it.Next returned ("unset": not called)
    dbExists,    \* the destination database exists
    tblExists,   \* the destination table exists
    tblCols,     \* its columns, in ordinal position
    existing,    \* evolveSchema: column name -> type, as read from the table
    fi,          \* evolveSchema: index of the schema field being handled
    ddl,         \* DDL statements sent to the destination, in order
    tx,          \* state of the transaction of insertRows
    txErr,       \* insertRows: the function-scope variable err
    batch,       \* insertRows: the in-memory batch
    total,       \* insertRows: running total
    inserts,     \* INSERT statements sent on the transaction, in order
    txRows,      \* rows staged in the open transaction
    committed,   \* rows visible in the destination table
    commits,     \* calls of tx.Commit
    rollbacks,   \* calls of tx.Rollback made by insertRows
    result,      \* what LoadFromBigQuery returned
    peer         \* a second load call of the same process on the same table

vars == <<req, runMode, resp, pc, ctxDone, dbname, table, createDDL, batchEnv, batchSize, qschema,
          nullRow, itSchema, pulled, nextCalls, streamEnded, prefetch, havePrefetch, peekErr,
          dbExists, tblExists, tblCols, existing, fi, ddl, tx, txErr, batch, total,
          inserts, txRows, committed, commits, rollbacks, result, peer>>

reqVars == <<req, runMode, resp>>
inputVars == <<dbname, table, createDDL, batchEnv, batchSize, qschema, nullRow>>
streamVars == <<itSchema, pulled, nextCalls, streamEnded, prefetch, havePrefetch,
                peekErr>>
destVars == <<dbExists, tblExists, tblCols, ddl>>
evolveVars == <<existing, fi>>
loadVars == <<tx, txErr, batch, total, inserts, txRows, committed, commits, rollbacks>>

\* ------------------------------------------------------------ text helpers
\* Identifiers and DDL texts are sequences of one-character strings.
RECURSIVE IndexOf(_, _, _)
\* strings.Index: position of the first ch in s at or after i, 0 if none
IndexOf(s, ch, i) ==
    IF i > Len(s) THEN 0
    ELSE IF s[i] = ch THEN i
    ELSE IndexOf(s, ch, i + 1)

\* strings.Contains(s, ch)
Contains(s, ch) == IndexOf(s, ch, 1) # 0

RECURSIVE TrimLeft(_)
TrimLeft(s) ==
    IF s # <<>> /\ Head(s) = " " THEN TrimLeft(Tail(s)) ELSE s

RECURSIVE TrimRight(_)
TrimRight(s) ==
    IF s # <<>> /\ s[Len(s)] = " " THEN TrimRight(SubSeq(s, 1, Len(s) - 1)) ELSE s

\* strings.TrimSpace
TrimSpace(s) == TrimRight(TrimLeft(s))

\* strings.ToLower on a column name
ToLower(n) ==
    CASE n = "A" -> "a"
      [] n = "B" -> "b"
      [] n = "C" -> "c"
      [] OTHER -> n

\* an empty db part is kept as it is
parseDBTable_NoFallback(dflt, t) ==
    IF Contains(t, ".")
    THEN LET k == IndexOf(t, ".", 1)
         IN  <<SubSeq(t, 1, k - 1), SubSeq(t, k + 1, Len(t))>>
    ELSE <<dflt, t>>

\* parseDBTable: "db.tbl" -> (db, tbl), an empty db part and a bare name
\* fall back to s.dbname
parseDBTable(dflt, t) ==
    IF Contains(t, ".")
    THEN LET k == IndexOf(t, ".", 1)
             d == SubSeq(t, 1, k - 1)
             n == SubSeq(t, k + 1, Len(t))
         IN  IF d = <<>> THEN <<dflt, n>> ELSE <<d, n>>
    ELSE <<dflt, t>>

\* qualify: db + "." + tbl
qualify(d, n) == d \o <<".">> \o n

\* ------------------------------------------------------------------ schema
\* bigquery.FieldSchema: Name, Type, Repeated
Field(n, t, r) == [name |-> n, type |-> t, repeated |-> r]

FieldPool ==
    { Field("a", "INTEGER", FALSE), Field("A", "INTEGER", FALSE),
      Field("b", "STRING", FALSE),  Field("b", "RECORD", FALSE),
      Field("c", "TIMESTAMP", FALSE), Field("c", "STRING", TRUE) }

\* the test of ensureTable and evolveSchema for an unsupported field
IsComplex(f) == f.repeated \/ f.type = "RECORD"

\* a TIME field is given a TIME column
mapSRType_NativeTime(f) ==
    CASE f.type = "STRING" -> "VARCHAR(1024)"
      [] f.type = "BYTES" -> "VARBINARY(1024)"
      [] f.type = "INTEGER" -> "BIGINT"
      [] f.type = "FLOAT" -> "DOUBLE"
      [] f.type = "BOOLEAN" -> "BOOLEAN"
      [] f.type \in {"TIMESTAMP", "DATETIME"} -> "DATETIME"
      [] f.type = "DATE" -> "DATE"
      [] f.type = "TIME" -> "TIME"
      [] f.type = "NUMERIC" -> "DECIMAL(38,9)"
      [] f.type = "GEOGRAPHY" -> "VARCHAR(2048)"
      [] f.type = "JSON" -> "JSON"
      [] OTHER -> "VARCHAR(1024)"

\* mapSRType: the column type for a field
mapSRType(f) ==
    CASE f.type = "STRING" -> "VARCHAR(1024)"
      [] f.type = "BYTES" -> "VARBINARY(1024)"
      [] f.type = "INTEGER" -> "BIGINT"
      [] f.type = "FLOAT" -> "DOUBLE"
      [] f.type = "BOOLEAN" -> "BOOLEAN"
      [] f.type \in {"TIMESTAMP", "DATETIME"} -> "DATETIME"
      [] f.type = "DATE" -> "DATE"
      [] f.type = "TIME" -> "VARCHAR(64)"
      [] f.type = "NUMERIC" -> "DECIMAL(38,9)"
      [] f.type = "GEOGRAPHY" -> "VARCHAR(2048)"
      [] f.type = "JSON" -> "JSON"
      [] OTHER -> "VARCHAR(1024)"

\* Result schemas: field names are unique, also up to letter case, as the
\* warehouse guarantees for the columns of a query result.
Schemas ==
    { s \in UNION { [1..n -> FieldPool] : n \in 0..MaxFields } :
        \A i, j \in DOMAIN s : i # j => ToLower(s[i].name) # ToLower(s[j].name) }

Col(n, t) == [name |-> n, type |-> t]

\* Column lists a destination table can have before the call; column c of the
\* second holds text, where the type mapped for a TIMESTAMP field is DATETIME
TableShapes ==
    { <<Col("a", "bigint")>>,
      <<Col("a", "bigint"), Col("b", "varchar"), Col("c", "varchar")>> }

\* Column lists a caller-supplied DDL can create
UserDDLShapes ==
    { <<Col("a", "bigint")>>,
      <<Col("a", "bigint"), Col("b", "varchar"), Col("c", "datetime")>> }

TableIds == { <<"t">>, <<"d", ".", "t">>, <<".", "t">> }
DbNames == { <<>>, <<"s">> }
DDLTexts == { <<>>, <<" ">>, <<"D", " ">> }

ColNames(cols) == { cols[i].name : i \in DOMAIN cols }

\* strings.ToUpper on a column type as information_schema reports it
ToUpper(t) ==
    CASE t = "bigint" -> "BIGINT"
      [] t = "varchar" -> "VARCHAR"
      [] t = "datetime" -> "DATETIME"
      [] OTHER -> t

\* What LoadFromBigQuery returns: the row count and the error, as the step
\* that failed (err), its cause and the field an unsupported-type error names
NoResult == [done |-> FALSE, rows |-> 0, err |-> "nil", cause |-> "", field |-> ""]
\* a failed call reports the rows flushed before the failure
Failure_Partial(kind, cause, fname) ==
    [done |-> TRUE, rows |-> total, err |-> kind, cause |-> cause, field |-> fname]

Failure(kind, cause, fname) ==
    [done |-> TRUE, rows |-> 0, err |-> kind, cause |-> cause, field |-> fname]
Success(n) == [done |-> TRUE, rows |-> n, err |-> "nil", cause |-> "", field |-> ""]

\* StarRocksDriver.Execute: the ExportResult and error made from what
\* LoadFromBigQuery(ctx, bq, query, location, t, ddl) returned
Execute(t, r) ==
    IF r.err # "nil"
    THEN [table |-> <<>>, rows |-> 0, err |-> r.err]
    ELSE [table |-> t, rows |-> r.rows, err |-> "nil"]

\* api.ExportRequest / service.ExportParams: the fields the load path reads
Request(q, l, t, d) == [query |-> q, location |-> l, table |-> t, database |-> d]

\* no response has been written and the process has not exited
NoResponse == [kind |-> "none", status |-> 0, body |-> [k \in {} |-> ""]]

\* ------------------------------------------------------------ batch size
\* the decimal digits
Digits == <<"0", "1", "2", "3", "4", "5", "6", "7", "8", "9">>
IsDigit(c) == \E d \in DOMAIN Digits : Digits[d] = c
DigitValue(c) == (CHOOSE d \in DOMAIN Digits : Digits[d] = c) - 1

\* the value of a non-empty sequence of digits
RECURSIVE DecValue(_)
DecValue(ds) ==
    IF Len(ds) = 1 THEN DigitValue(ds[1])
    ELSE 10 * DecValue(SubSeq(ds, 1, Len(ds) - 1)) + DigitValue(ds[Len(ds)])

\* strconv.Atoi: an optional sign, then one or more digits and nothing else.
\* (Texts of MaxEnvLen characters stay far below the range of int, so the
\* range error of Atoi does not arise.)
Atoi(v) ==
    LET signed == v # <<>> /\ v[1] \in {"+", "-"}
        ds == IF signed THEN Tail(v) ELSE v
    IN  IF ds = <<>> \/ \E i \in DOMAIN ds : ~IsDigit(ds[i])
        THEN [ok |-> FALSE, n |-> 0]
        ELSE [ok |-> TRUE, n |-> IF v[1] = "-" THEN 0 - DecValue(ds) ELSE DecValue(ds)]

\* the decimal text of a natural number
RECURSIVE Itoa(_)
Itoa(n) ==
    IF n < 10 THEN <<Digits[n + 1]>> ELSE Itoa(n \div 10) \o <<Digits[(n % 10) + 1]>>

\* batchSize := 1000
DefaultBatchSize == 1000

\* any text that parses is taken, whatever its sign
EffectiveBatchSize_AnyInt(v) ==
    IF v # <<>> /\ Atoi(v).ok THEN Atoi(v).n ELSE DefaultBatchSize

\* the batch capacity insertRows computes from STARROCKS_BATCH_SIZE
EffectiveBatchSize(v) ==
    IF v # <<>> /\ Atoi(v).ok /\ Atoi(v).n > 0 THEN Atoi(v).n ELSE DefaultBatchSize

\* A second call of LoadFromBigQuery, from its ensureTable on, for a query
\* with schema s: its position, its locals (those of the first call are the
\* variables existing .. result), the columns of the table when it started
\* (cols0) and whether the first call's ensureTable had returned nil by then
\* (seq)
PeerStart(s) ==
    [pc |-> "ensure", schema |-> s, seq |-> FALSE, cols0 |-> <<>>, existing |-> <<>>,
     fi |-> 0, ddl |-> <<>>, tx |-> "none", txErr |-> "nil", batchSize |-> DefaultBatchSize,
     batch |-> <<>>, total |-> 0, pulled |-> 0, ended |-> FALSE, inserts |-> <<>>,
     txRows |-> <<>>, result |-> NoResult]

\* no second call
NoPeer == [PeerStart(<<>>) EXCEPT !.pc = "none"]

\* A DDL statement as sent: its kind, target, columns and key
Stmt(op, target, cols, key, ok) ==
    [op |-> op, target |-> target, cols |-> cols, key |-> key, ok |-> ok]

\* -------------------------------------------------------------------- Init
\* the state of a load call before its first step
LoadInit ==
    /\ ctxDone = FALSE
    /\ itSchema = <<>>
    /\ peekErr = "unset"
    /\ pulled = 0
    /\ nextCalls = 0
    /\ streamEnded = FALSE
    /\ prefetch = 0
    /\ havePrefetch = FALSE
    /\ \/ dbExists = FALSE /\ tblExists = FALSE /\ tblCols = <<>>
       \/ dbExists = TRUE /\ tblExists = FALSE /\ tblCols = <<>>
       \/ dbExists = TRUE /\ tblExists = TRUE /\ tblCols \in TableShapes
    /\ existing = <<>>
    /\ fi = 0
    /\ ddl = <<>>
    /\ tx = "none"
    /\ txErr = "nil"
    /\ batch = <<>>
    /\ total = 0
    /\ inserts = <<>>
    /\ txRows = <<>>
    /\ committed = <<>>
    /\ commits = 0
    /\ rollbacks = 0
    /\ result = NoResult

\* LoadFromBigQuery has been called with table and createDDL for a request
\* that names that table and no database
Init ==
    /\ pc = "query"
    /\ dbname \in DbNames
    /\ table \in TableIds
    /\ createDDL \in DDLTexts
    /\ batchEnv \in { Itoa(n) : n \in 1..MaxBatch }
    /\ batchSize = DefaultBatchSize
    /\ qschema \in Schemas
    /\ nullRow = 0
    /\ req = Request("q", "l", table, <<>>)
    /\ runMode = "server"
    /\ resp = NoResponse
    /\ peer = NoPeer
    /\ LoadInit

\* ----------------------------------------------------- destination calls
\* Outcome of a call on the destination handle bound to ctx: database/sql
\* refuses it once ctx is done; otherwise the engine executes or rejects it.
ExecOutcomes == IF ctxDone THEN {"ctx"} ELSE {"ok", "fail"}

\* The statement reached the engine
Sent(o) == o # "ctx"

CauseOf(o) == IF o = "ctx" THEN "cancelled" ELSE "database"

db == parseDBTable(dbname, table)[1]
tbl == parseDBTable(dbname, table)[2]
fullName == qualify(db, tbl)

\* LoadFromBigQuery returns (0, err)
Fail(kind, cause, fname) ==
    /\ pc' = "done"
    /\ result' = Failure(kind, cause, fname)

\* the error of ensureTable is dropped and the load goes on
EnsureFail_Ignored(cause, fname) == pc' = "begin" /\ UNCHANGED result

\* ensureTable returned an error: LoadFromBigQuery returns it, wrapped
EnsureFail(cause, fname) == Fail("ensure", cause, fname)

\* ------------------------------------------------------- LoadFromBigQuery
\* the schema is taken as missing whatever q.Read reported
NeedPeek_Always(s) == TRUE

\* the test len(it.Schema) == 0 before the peek
NeedPeek(s) == Len(s) = 0

\* q.Read(ctx): submit the query
RunQuery ==
    /\ pc = "query"
    /\ \/ /\ Fail("query", IF ctxDone THEN "cancelled" ELSE "warehouse", "")
          /\ UNCHANGED itSchema
       \/ /\ ~ctxDone
          /\ itSchema' \in {qschema, <<>>}
          /\ pc' = IF NeedPeek(itSchema') THEN "peek" ELSE "ensure"
          /\ UNCHANGED result
    /\ UNCHANGED <<ctxDone, reqVars, peer, inputVars, pulled, nextCalls, streamEnded, prefetch,
                   havePrefetch, peekErr, destVars, evolveVars, loadVars>>

\* the schema is not looked at again after the peek
AfterPeek_NoCheck == pc' = "ensure" /\ UNCHANGED result

\* the test of len(it.Schema) after the peek
AfterPeek ==
    IF Len(itSchema') = 0
    THEN Fail("empty_schema", "", "")
    ELSE pc' = "ensure" /\ UNCHANGED result

\* the peek: it.Next while it.Schema is empty. No page has been fetched yet,
\* so this call fetches under ctx and fails once ctx is done.
Peek ==
    /\ pc = "peek"
    /\ nextCalls' = nextCalls + 1
    /\ \/ /\ ~ctxDone
          /\ pulled < MaxRows
          /\ pulled' = pulled + 1
          /\ prefetch' = pulled + 1
          /\ havePrefetch' = TRUE
          /\ peekErr' = "nil"
          /\ itSchema' = qschema
          /\ UNCHANGED streamEnded
          /\ AfterPeek
       \/ /\ ~ctxDone
          /\ streamEnded' = TRUE
          /\ peekErr' = "Done"
          /\ itSchema' = qschema
          /\ UNCHANGED <<pulled, prefetch, havePrefetch>>
          /\ AfterPeek
       \/ /\ streamEnded' = TRUE
          /\ peekErr' = "error"
          /\ Fail("fetch", IF ctxDone THEN "cancelled" ELSE "warehouse", "")
          /\ UNCHANGED <<itSchema, pulled, prefetch, havePrefetch>>
    /\ UNCHANGED <<ctxDone, reqVars, peer, inputVars, destVars, evolveVars, loadVars>>

\* ------------------------------------------------------------ ensureTable
\* the caller-supplied DDL is applied only when the table is absent
UseUserDDL_IfAbsent == TrimSpace(createDDL) # <<>> /\ ~tblExists

\* the test strings.TrimSpace(createDDL) != ""
UseUserDDL == TrimSpace(createDDL) # <<>>

\* ensureTable up to and including ensureDatabase
EnsureDatabase ==
    /\ pc = "ensure"
    /\ IF table = <<>>
       THEN EnsureFail("config", "") /\ UNCHANGED <<dbExists, ddl>>
       ELSE IF TrimSpace(db) = <<>>
       THEN EnsureFail("config", "") /\ UNCHANGED <<dbExists, ddl>>
       ELSE \E o \in ExecOutcomes :
            /\ ddl' = IF Sent(o)
                       THEN Append(ddl, Stmt("CREATE_DATABASE", db, <<>>, "", o = "ok"))
                       ELSE ddl
            /\ IF o = "ok"
               THEN /\ dbExists' = TRUE
                    /\ pc' = IF UseUserDDL THEN "userddl" ELSE "exists"
                    /\ UNCHANGED result
               ELSE EnsureFail(CauseOf(o), "") /\ UNCHANGED dbExists
    /\ UNCHANGED <<ctxDone, reqVars, peer, inputVars, streamVars, tblExists, tblCols,
                   evolveVars, loadVars>>

\* ensureTable: the caller-supplied DDL, executed as given
ApplyUserDDL ==
    /\ pc = "userddl"
    /\ \E o \in ExecOutcomes :
         /\ ddl' = IF Sent(o)
                    THEN Append(ddl, Stmt("USER_DDL", createDDL, <<>>, "", o = "ok"))
                    ELSE ddl
         /\ IF o = "ok"
            THEN /\ IF tblExists
                    THEN UNCHANGED <<tblExists, tblCols>>
                    ELSE tblExists' = TRUE /\ tblCols' \in UserDDLShapes
                 /\ pc' = "begin"
                 /\ UNCHANGED result
            ELSE EnsureFail(CauseOf(o), "") /\ UNCHANGED <<tblExists, tblCols>>
    /\ UNCHANGED <<ctxDone, reqVars, peer, inputVars, streamVars, dbExists, evolveVars, loadVars>>

\* the synthesized CREATE TABLE is sent whatever the lookup found
ExistsPc_Create(e) == "create"

\* ensureTable after tableExists: evolve an existing table, create a missing
\* one
ExistsPc(e) == IF e THEN "columns" ELSE "create"

\* tableExists: the lookup in information_schema.tables
TableExists ==
    /\ pc = "exists"
    /\ \E o \in ExecOutcomes :
         IF o = "ok"
         THEN pc' = ExistsPc(tblExists) /\ UNCHANGED result
         ELSE EnsureFail(CauseOf(o), "")
    /\ UNCHANGED <<ctxDone, reqVars, peer, inputVars, streamVars, destVars, evolveVars, loadVars>>

\* index of the first repeated or record field of s, 0 if none
FirstComplex(s) ==
    IF \E i \in DOMAIN s : IsComplex(s[i])
    THEN CHOOSE i \in DOMAIN s :
            IsComplex(s[i]) /\ \A j \in 1..(i - 1) : ~IsComplex(s[j])
    ELSE 0

\* the last field is left out of the column list
CreateCols_DropLast(s) == [i \in 1..(Len(s) - 1) |-> Col(s[i].name, mapSRType(s[i]))]

\* the column list of the synthesized CREATE TABLE
CreateCols(s) == [i \in DOMAIN s |-> Col(s[i].name, mapSRType(s[i]))]

\* the table is keyed and distributed by its last column
TableModel_LastKey(s) ==
    [engine |-> "OLAP", duplicateKey |-> s[Len(s)].name, hashKey |-> s[Len(s)].name,
     buckets |-> 8, replication_num |-> "1"]

\* the clauses of the synthesized CREATE TABLE after the column list
TableModel(s) ==
    [engine |-> "OLAP", duplicateKey |-> s[1].name, hashKey |-> s[1].name,
     buckets |-> 8, replication_num |-> "1"]

\* ensureTable: the table does not exist
CreateTable ==
    /\ pc = "create"
    /\ IF Len(itSchema) = 0
       THEN EnsureFail("empty_schema", "") /\ UNCHANGED <<tblExists, tblCols, ddl>>
       ELSE IF FirstComplex(itSchema) # 0
       THEN /\ EnsureFail("unsupported", itSchema[FirstComplex(itSchema)].name)
            /\ UNCHANGED <<tblExists, tblCols, ddl>>
       ELSE \E o \in ExecOutcomes :
            /\ ddl' = IF Sent(o)
                       THEN Append(ddl, Stmt("CREATE_TABLE", fullName,
                                             CreateCols(itSchema), TableModel(itSchema),
                                             o = "ok"))
                       ELSE ddl
            /\ IF o = "ok"
               THEN /\ IF tblExists
                       THEN UNCHANGED <<tblExists, tblCols>>
                       ELSE tblExists' = TRUE /\ tblCols' = CreateCols(itSchema)
                    /\ pc' = "begin"
                    /\ UNCHANGED result
               ELSE EnsureFail(CauseOf(o), "") /\ UNCHANGED <<tblExists, tblCols>>
    /\ UNCHANGED <<ctxDone, reqVars, peer, inputVars, streamVars, dbExists, evolveVars, loadVars>>

\* ----------------------------------------------------------- evolveSchema
\* evolveSchema returns after its first field
EvolvePcOf_Stop(s, i) == "begin"

\* where evolveSchema goes after field i - 1
EvolvePcOf(s, i) == IF i > Len(s) THEN "begin" ELSE "evolve"
EvolvePc(i) == EvolvePcOf(itSchema, i)

\* the map getExistingColumns builds: column name -> type in upper case
ColumnMap(cols) ==
    [n \in ColNames(cols) |->
        ToUpper((CHOOSE c \in {cols[i] : i \in DOMAIN cols} : c.name = n).type)]

\* getExistingColumns and the map built from it
GetExistingColumns ==
    /\ pc = "columns"
    /\ \E o \in ExecOutcomes :
         IF o = "ok"
         THEN /\ existing' = ColumnMap(tblCols)
              /\ fi' = 1
              /\ pc' = EvolvePc(1)
              /\ UNCHANGED result
         ELSE EnsureFail(CauseOf(o), "") /\ UNCHANGED evolveVars
    /\ UNCHANGED <<ctxDone, reqVars, peer, inputVars, streamVars, destVars, loadVars>>

\* every field is taken as missing
HasColumn_Never(ex, f) == FALSE

\* a column of another type than the mapped one is taken as missing
HasColumn_SameType(ex, f) == f.name \in DOMAIN ex /\ ex[f.name] = mapSRType(f)

\* every field is taken as present
HasColumn_Always(ex, f) == TRUE

\* the lookup existing[f.Name]
HasColumn(ex, f) == f.name \in DOMAIN ex

\* The engine adds a column unless the table has that name already; its
\* column names do not distinguish letter case.
EngineAddsColumn(cols, n) == ToLower(n) \notin { ToLower(m) : m \in ColNames(cols) }

\* evolveSchema: one iteration of the loop over the schema
EvolveField ==
    /\ pc = "evolve"
    /\ LET f == itSchema[fi] IN
       IF IsComplex(f)
       THEN EnsureFail("unsupported", f.name) /\ UNCHANGED <<fi, tblCols, ddl>>
       ELSE IF HasColumn(existing, f)
       THEN /\ fi' = fi + 1
            /\ pc' = EvolvePc(fi + 1)
            /\ UNCHANGED <<result, tblCols, ddl>>
       ELSE \E o \in ExecOutcomes :
            /\ o = "ok" => EngineAddsColumn(tblCols, f.name)
            /\ ddl' = IF Sent(o)
                       THEN Append(ddl, Stmt("ADD_COLUMN", fullName,
                                             <<Col(f.name, mapSRType(f))>>, "", o = "ok"))
                       ELSE ddl
            /\ IF o = "ok"
               THEN /\ tblCols' = Append(tblCols, Col(f.name, mapSRType(f)))
                    /\ fi' = fi + 1
                    /\ pc' = EvolvePc(fi + 1)
                    /\ UNCHANGED result
               ELSE EnsureFail(CauseOf(o), "") /\ UNCHANGED <<fi, tblCols>>
    /\ UNCHANGED <<ctxDone, reqVars, peer, inputVars, streamVars, dbExists, tblExists, existing,
                   loadVars>>

\* ------------------------------------------------------------- insertRows
\* len(prefetch): a row holds one value per column of the result
PrefetchLen == IF havePrefetch THEN Len(qschema) ELSE 0

\* the prefetched row is not put into the first batch
FirstBatch_NoPrefetch == <<>>

\* the prefetch slot is put into the first batch whether it was filled or not
FirstBatch_Always == <<prefetch>>

\* the batch insertRows starts with
FirstBatch == IF havePrefetch /\ PrefetchLen > 0 THEN <<prefetch>> ELSE <<>>

\* the capacity test after a row was appended
BatchFull(b) == Len(b) >= batchSize

\* the condition of the deferred function: it reads the function-scope err,
\* which BeginTx set and no later statement assigns
DeferredRollbackOf(e) == e # "nil"
DeferredRollback == DeferredRollbackOf(txErr)

\* insertRows returns (0, err): the deferred function runs, then
\* LoadFromBigQuery returns (0, err)
InsertRowsFail(cause) ==
    /\ IF DeferredRollback /\ tx = "open"
       THEN tx' = "rolledback" /\ txRows' = <<>>
       ELSE UNCHANGED <<tx, txRows>>
    /\ rollbacks' = IF DeferredRollback THEN rollbacks + 1 ELSE rollbacks
    /\ Fail("insert", cause, "")

\* s.db.BeginTx and the first batch
BeginTx ==
    /\ pc = "begin"
    /\ \E o \in ExecOutcomes :
         IF o = "ok"
         THEN /\ tx' = "open"
              /\ txErr' = "nil"
              /\ batch' = FirstBatch
              /\ total' = 0
              /\ batchSize' = EffectiveBatchSize(batchEnv)
              /\ pc' = "loop"
              /\ UNCHANGED result
         ELSE /\ Fail("insert", CauseOf(o), "")
              /\ UNCHANGED <<tx, txErr, batch, total, batchSize>>
    /\ UNCHANGED <<ctxDone, reqVars, peer, dbname, table, createDDL, batchEnv, qschema, nullRow,
                   streamVars, destVars, evolveVars, inserts, txRows, committed, commits,
                   rollbacks>>

\* end of data goes straight to the commit: the remaining batch is dropped
AtDonePc_NoFlush(b) == "commit"

\* end of data always flushes, whatever the batch holds
AtDonePc_AlwaysFlush(b) == "finalflush"

\* end of data does not leave the loop
AtDonePc_Retry(b) == "loop"

\* at iterator.Done: flush a non-empty batch, then leave the loop
AtDonePc(b) == IF Len(b) > 0 THEN "finalflush" ELSE "commit"

\* it.Next in the loop of insertRows
NextRow ==
    /\ pc = "loop"
    /\ nextCalls' = nextCalls + 1
    /\ \/ /\ ~streamEnded
          /\ pulled < MaxRows
          /\ pulled' = pulled + 1
          /\ batch' = Append(batch, pulled + 1)
          /\ pc' = IF BatchFull(batch') THEN "flush" ELSE "loop"
          /\ UNCHANGED <<streamEnded, result, tx, txRows, rollbacks>>
       \/ /\ streamEnded' = TRUE
          /\ pc' = AtDonePc(batch)
          /\ UNCHANGED <<pulled, batch, result, tx, txRows, rollbacks>>
       \/ /\ ~streamEnded
          /\ streamEnded' = TRUE
          /\ InsertRowsFail(IF ctxDone THEN "cancelled" ELSE "warehouse")
          /\ UNCHANGED <<pulled, batch>>
    /\ UNCHANGED <<ctxDone, reqVars, peer, inputVars, itSchema, prefetch, havePrefetch, peekErr,
                   destVars, evolveVars, txErr, total, inserts, committed, commits>>

\* A bigquery.Value: its Go type and, to tell values apart, the row and
\* column of the result it stands in
Value(go, r, j) == [go |-> go, row |-> r, col |-> j]

\* nil: a NULL of the result, and what convertValues binds for a value it
\* cannot use
Nil == Value("nil", 0, 0)

\* the Go type RowIterator.Next yields for a non-NULL value of a field
GoType(t) ==
    CASE t \in {"STRING", "GEOGRAPHY", "JSON"} -> "string"
      [] t = "BYTES" -> "[]byte"
      [] t = "INTEGER" -> "int64"
      [] t = "FLOAT" -> "float64"
      [] t = "BOOLEAN" -> "bool"
      [] t = "TIMESTAMP" -> "time.Time"
      [] t = "DATE" -> "civil.Date"
      [] t = "TIME" -> "civil.Time"
      [] t = "DATETIME" -> "civil.DateTime"
      [] t \in {"NUMERIC", "BIGNUMERIC"} -> "*big.Rat"
      [] t = "INTERVAL" -> "*bigquery.IntervalValue"
      [] OTHER -> "[]bigquery.Value"

\* the values it.Next stores for row r: one per field of the schema
RowValues(r) ==
    [j \in DOMAIN itSchema |->
        IF r = nullRow THEN Nil ELSE Value(GoType(itSchema[j].type), r, j)]

\* convertValues: a TIMESTAMP value that is not a time.Time becomes nil,
\* every other value is passed on
convertValues(values, schema) ==
    [i \in DOMAIN values |->
        IF schema[i].type = "TIMESTAMP"
        THEN IF values[i].go = "time.Time" THEN values[i] ELSE Nil
        ELSE values[i]]

RECURSIVE Concat(_)
\* args = append(args, rowArgs...) over the rows
Concat(ss) == IF ss = <<>> THEN <<>> ELSE Head(ss) \o Concat(Tail(ss))

\* insertRows: the column names, each in backquotes, in schema order
QuotedCols(schema) ==
    [i \in DOMAIN schema |-> [quote |-> "backquote", name |-> schema[i].name]]

\* each row's arguments are put in front of those of the rows before it
buildBatchInsert_Prepend(t, cols, schema, b) ==
    [target |-> t, cols |-> cols,
     groups |-> [i \in DOMAIN b |-> [j \in DOMAIN schema |-> "?"]],
     args |-> Concat([i \in DOMAIN b |-> convertValues(b[Len(b) + 1 - i], schema)])]

\* buildBatchInsert: the target, the column list, one group of placeholders
\* per row and the bound arguments
buildBatchInsert(t, cols, schema, b) ==
    [target |-> t, cols |-> cols,
     groups |-> [i \in DOMAIN b |-> [j \in DOMAIN schema |-> "?"]],
     args |-> Concat([i \in DOMAIN b |-> convertValues(b[i], schema)])]

\* the INSERT statement built from a batch of rows, as sent
InsertStmt(b, ok) ==
    LET st == buildBatchInsert(table, QuotedCols(itSchema), itSchema,
                               [i \in DOMAIN b |-> RowValues(b[i])])
    IN  [target |-> st.target, rows |-> b, ok |-> ok,
         cols |-> st.cols, groups |-> st.groups, args |-> st.args]

\* the error of tx.ExecContext is dropped
ExecFailed_Ignored(o) == FALSE

\* the test "err != nil" after tx.ExecContext
ExecFailed(o) == o # "ok"

\* the total advances by the capacity instead of the batch length
NewTotal_Capacity(t, b) == t + batchSize

\* total += int64(len(batch))
NewTotal(t, b) == t + Len(b)

\* tx.ExecContext of one batch and what follows it up to the next blocking
\* call
ExecBatch(next) ==
    \E o \in ExecOutcomes :
         /\ inserts' = IF Sent(o) THEN Append(inserts, InsertStmt(batch, o = "ok"))
                        ELSE inserts
         /\ IF ExecFailed(o)
            THEN /\ InsertRowsFail(CauseOf(o))
                 /\ UNCHANGED <<total, batch>>
            ELSE /\ txRows' = IF o = "ok" THEN txRows \o batch ELSE txRows
                 /\ total' = NewTotal(total, batch)
                 /\ batch' = <<>>
                 /\ pc' = next
                 /\ UNCHANGED <<result, tx, rollbacks>>

\* the flush of a full batch inside the loop
FlushBatch ==
    /\ pc = "flush"
    /\ ExecBatch("loop")
    /\ UNCHANGED <<ctxDone, reqVars, peer, inputVars, streamVars, destVars, evolveVars, txErr,
                   committed, commits>>

\* the flush of the remaining batch at end of data
FlushLast ==
    /\ pc = "finalflush"
    /\ ExecBatch("commit")
    /\ UNCHANGED <<ctxDone, reqVars, peer, inputVars, streamVars, destVars, evolveVars, txErr,
                   committed, commits>>

\* tx.Commit
Commit ==
    /\ pc = "commit"
    /\ commits' = commits + 1
    /\ \E o \in ExecOutcomes :
         CASE o = "ok" ->
                /\ tx' = "committed"
                /\ committed' = committed \o txRows
                /\ txRows' = <<>>
                /\ pc' = "done"
                /\ result' = Success(total)
                /\ UNCHANGED rollbacks
           [] o = "fail" ->
                /\ tx' = "aborted"
                /\ txRows' = <<>>
                /\ rollbacks' = IF DeferredRollback THEN rollbacks + 1 ELSE rollbacks
                /\ Fail("insert", "database", "")
                /\ UNCHANGED committed
           [] o = "ctx" ->
                /\ InsertRowsFail("cancelled")
                /\ UNCHANGED committed
    /\ UNCHANGED <<ctxDone, reqVars, peer, inputVars, streamVars, destVars, evolveVars, txErr,
                   batch, total, inserts>>

\* ------------------------------------------------------------ environment
\* the caller's context is cancelled while the call runs
Cancel ==
    /\ pc # "done"
    /\ ~ctxDone
    /\ ctxDone' = TRUE
    /\ UNCHANGED <<pc, reqVars, peer, inputVars, streamVars, destVars, evolveVars, loadVars, result>>

\* database/sql rolls back a transaction begun with BeginTx(ctx) once ctx is
\* done
TxAwaitDone ==
    /\ ctxDone
    /\ tx = "open"
    /\ tx' = "rolledback"
    /\ txRows' = <<>>
    /\ UNCHANGED <<pc, ctxDone, reqVars, peer, inputVars, streamVars, destVars, evolveVars, txErr,
                   batch, total, inserts, committed, commits, rollbacks, result>>

Next ==
    \/ RunQuery
    \/ Peek
    \/ EnsureDatabase
    \/ ApplyUserDDL
    \/ TableExists
    \/ CreateTable
    \/ GetExistingColumns
    \/ EvolveField
    \/ BeginTx
    \/ NextRow
    \/ FlushBatch
    \/ FlushLast
    \/ Commit
    \/ Cancel
    \/ TxAwaitDone

Spec == Init /\ [][Next]_vars

\* ------------------------------- calls under every STARROCKS_BATCH_SIZE
\* characters of the texts STARROCKS_BATCH_SIZE is set to
EnvChars == {"0", "1", "2", "+", "-", "a"}

\* the texts of at most MaxEnvLen characters; <<>> is the variable unset or
\* set to the empty string, which os.Getenv does not tell apart
EnvTexts == UNION { [1..n -> EnvChars] : n \in 0..MaxEnvLen }

InitBatch ==
    /\ pc = "query"
    /\ dbname = <<"s">>
    /\ table = <<"t">>
    /\ createDDL \in {<<>>, <<"D", " ">>}
    /\ batchEnv \in EnvTexts
    /\ batchSize = DefaultBatchSize
    /\ qschema = <<Field("a", "INTEGER", FALSE)>>
    /\ nullRow = 0
    /\ req = Request("q", "l", table, <<>>)
    /\ runMode = "server"
    /\ resp = NoResponse
    /\ peer = NoPeer
    /\ LoadInit

SpecBatch == InitBatch /\ [][Next]_vars

\* ------------------------------------------- calls over every field type
\* bigquery.FieldType: the types mapSRType names and three it does not
FieldTypes ==
    { "STRING", "BYTES", "INTEGER", "FLOAT", "BOOLEAN", "TIMESTAMP", "DATETIME",
      "DATE", "TIME", "NUMERIC", "GEOGRAPHY", "JSON",
      "BIGNUMERIC", "INTERVAL", "RECORD" }

\* a load call for a result of one column of any type, with or without a
\* row of NULLs
InitTypes ==
    /\ pc = "query"
    /\ dbname = <<"s">>
    /\ table = <<"t">>
    /\ createDDL \in {<<>>, <<"D", " ">>}
    /\ batchEnv \in { Itoa(n) : n \in 1..MaxBatch }
    /\ batchSize = DefaultBatchSize
    /\ qschema \in { <<Field("a", t, FALSE)>> : t \in FieldTypes }
    /\ nullRow \in 0..MaxRows
    /\ req = Request("q", "l", table, <<>>)
    /\ runMode = "server"
    /\ resp = NoResponse
    /\ peer = NoPeer
    /\ LoadInit

SpecTypes == InitTypes /\ [][Next]_vars

\* ------------------------------------------------- the request around a call
\* the table identifier the driver uses when the request gives none
Export == <<"e", "x", "p", "o", "r", "t">>

\* the identifier of the request is passed on as it is
DefaultTable_None(t) == t

\* StarRocksDriver.Execute: table := params.Table, "export" when empty
DefaultTable(t) == IF t = <<>> THEN Export ELSE t

\* only the query is required
BindFails_QueryOnly(r) == r.query = ""

\* ShouldBindJSON fails: a field tagged binding:"required" is missing or empty
BindFails(r) == r.query = "" \/ r.location = ""

\* the test of main in job mode
JobInvalid(r) == r.query = "" \/ r.location = ""

\* c.JSON(status, body) / os.Exit(code)
Http(status, body) == [kind |-> "http", status |-> status, body |-> body]
Exit(code) == [kind |-> "exit", status |-> code, body |-> [k \in {} |-> ""]]

\* encoding/json of api.ExportResponse: a field tagged omitempty is left out
\* when it has its zero value
ResponseJSON(message, gcsPath, tbl0, rows) ==
    LET keys == {"message"}
                \cup (IF gcsPath # "" THEN {"gcs_path"} ELSE {})
                \cup (IF tbl0 # <<>> THEN {"starrocks_table"} ELSE {})
                \cup (IF rows # 0 THEN {"rows_loaded"} ELSE {})
    IN  [k \in keys |->
            CASE k = "message" -> message
              [] k = "gcs_path" -> gcsPath
              [] k = "starrocks_table" -> tbl0
              [] OTHER -> rows]

\* The request arrives: ExportHandler binds it, or main in job mode reads it
\* from the environment; a valid one is handed to driver.Execute, which
\* calls LoadFromBigQuery
HandleRequest ==
    /\ pc = "request"
    /\ IF runMode = "server" /\ BindFails(req)
       THEN /\ resp' = Http(400, [error |-> "bind"])
            /\ pc' = "responded"
            /\ UNCHANGED table
       ELSE IF runMode = "job" /\ JobInvalid(req)
       THEN /\ resp' = Exit(1)
            /\ pc' = "responded"
            /\ UNCHANGED table
       ELSE /\ table' = DefaultTable(req.table)
            /\ pc' = "query"
            /\ UNCHANGED resp
    /\ UNCHANGED <<req, runMode, peer, ctxDone, dbname, createDDL, batchEnv, batchSize, qschema,
                   nullRow, streamVars, destVars, evolveVars, loadVars, result>>

\* driver.Execute has returned: the handler writes the response, the job
\* logs and exits
Respond ==
    /\ pc = "done"
    /\ result.done
    /\ LET e == Execute(table, result) IN
       resp' = IF runMode = "server"
               THEN IF e.err # "nil"
                    THEN Http(500, [error |-> e.err])
                    ELSE Http(200, ResponseJSON("OK", "", e.table, e.rows))
               ELSE IF e.err # "nil" THEN Exit(1) ELSE Exit(0)
    /\ pc' = "responded"
    /\ UNCHANGED <<req, runMode, peer, ctxDone, inputVars, streamVars, destVars,
                   evolveVars, loadVars, result>>

\* Requests: with and without query, location, table and database
Requests ==
    { Request(q, l, t, d) : q \in {"", "q"}, l \in {"", "l"},
                            t \in {<<>>, <<"t">>, <<"d", ".", "t">>},
                            d \in {<<>>, <<"D">>} }

\* a request has arrived and nothing was done for it yet
InitReq ==
    /\ pc = "request"
    /\ req \in Requests
    /\ runMode \in {"server", "job"}
    /\ resp = NoResponse
    /\ peer = NoPeer
    /\ table = <<>>
    /\ dbname \in DbNames
    /\ createDDL \in {<<>>, <<"D", " ">>}
    /\ batchEnv = Itoa(MaxBatch)
    /\ batchSize = DefaultBatchSize
    /\ qschema \in {s \in Schemas : Len(s) <= 1}
    /\ nullRow = 0
    /\ LoadInit

NextReq ==
    \/ HandleRequest
    \/ Respond
    \/ Next

SpecReq == InitReq /\ [][NextReq]_vars

\* ============================================================== properties
\* the call has returned an error / has returned success
Failed == pc = "done" /\ result.done /\ result.err # "nil"
Succeeded == pc = "done" /\ result.done /\ result.err = "nil"

\* the rows of the query result handed out so far, in their original order
QueryRows == [i \in 1..pulled |-> i]

RECURSIVE InsertedRows(_)
\* the rows of the first n INSERT statements, concatenated in execution order
InsertedRows(n) ==
    IF n = 0 THEN <<>> ELSE InsertedRows(n - 1) \o inserts[n].rows

CeilDiv(n, d) == (n + d - 1) \div d

\* C1: when a step of insertRows fails after the transaction was opened, the
\* transaction has been rolled back by the time the error is returned.
C1_RolledBackBeforeError ==
    (Failed /\ result.err = "insert" /\ tx # "none") => tx \in {"rolledback", "aborted"}

\* C2: when the insert of some batch k fails, the call returns an error
\* with row count 0, commit is never invoked, no batch after k is executed
\* and no row of the batches before k becomes visible in the table.
C2_FailedBatchAtomic ==
    (\E k \in DOMAIN inserts : ~inserts[k].ok) =>
        /\ Failed /\ result.rows = 0
        /\ commits = 0
        /\ \A k \in DOMAIN inserts : ~inserts[k].ok => k = Len(inserts)
        /\ committed = <<>>
        /\ tx # "committed"

C2_Witness ==
    /\ Len(inserts) = 3 /\ ~inserts[3].ok /\ inserts[1].ok /\ inserts[2].ok
    /\ Failed /\ ~ctxDone

\* C3: after a successful load the rows of the executed INSERT statements,
\* concatenated in execution order, are the rows of the query result in
\* their original order, each once; a row taken by the schema peek is the
\* first row of the first INSERT.
C3_RowsInOrder ==
    Succeeded =>
        /\ \A k \in DOMAIN inserts : inserts[k].ok
        /\ InsertedRows(Len(inserts)) = QueryRows
        /\ committed = QueryRows
        /\ havePrefetch => (inserts # <<>> /\ inserts[1].rows[1] = prefetch /\ prefetch = 1)

C3_Witness ==
    Succeeded /\ havePrefetch /\ pulled = 4 /\ batchSize = 2 /\ Len(inserts) = 2

\* C4: a successful load returns rowsLoaded = N, the number of rows of the
\* query result, with or without a prefetched row.
C4_RowsLoaded == Succeeded => result.rows = pulled

C4_Witness == Succeeded /\ havePrefetch /\ batchSize = 2 /\ result.rows = 3

\* C5: a successful load of N rows with batch size B executes exactly
\* ceil(N/B) INSERT statements, also for B = 1 and with a prefetched row.
C5_StatementCount == Succeeded => Len(inserts) = CeilDiv(pulled, batchSize)

\* C6: the in-memory batch never holds more than B rows and no INSERT
\* statement covers more than B rows, also with a prefetched row.
C6_BatchBounded ==
    /\ Len(batch) <= batchSize
    /\ \A k \in DOMAIN inserts : Len(inserts[k].rows) <= batchSize

\* ensureTable has returned nil
EnsureOk ==
    \/ pc \in {"begin", "loop", "flush", "finalflush", "commit"}
    \/ pc = "done" /\ result.err \in {"nil", "insert"}

\* ensureTable has returned an error
EnsureFailed == pc = "done" /\ result.err = "ensure"

\* the schema handed to ensureTable has a repeated or record field
HasComplex == \E i \in DOMAIN itSchema : IsComplex(itSchema[i])

\* the ADD COLUMN statements sent so far, in order
AddColumns == SelectSeq(ddl, LAMBDA st : st.op = "ADD_COLUMN")

\* the fields of the schema that have no column of exactly their name among
\* the columns read from the table, in schema order
MissingFields == SelectSeq(itSchema, LAMBDA f : f.name \notin DOMAIN existing)

\* evolveSchema has read the table's columns / has returned nil
Evolving == fi > 0
Evolved == fi > Len(itSchema) /\ EnsureOk

\* C7: with a repeated or record field anywhere in the schema, ensureTable
\* never returns nil, its unsupported-type error names such a field, no DDL
\* statement is executed at the destination and no row loading begins.
C7_ComplexFieldNoDDL ==
    HasComplex =>
        /\ ddl = <<>>
        /\ tx = "none"
        /\ ~EnsureOk
        /\ (EnsureFailed /\ result.cause = "unsupported") =>
              \E i \in DOMAIN itSchema :
                  IsComplex(itSchema[i]) /\ itSchema[i].name = result.field

\* C8: no ADD COLUMN statement is issued for a field whose name differs
\* only in letter case from a column the table already has.
C8_CaseInsensitiveColumns ==
    \A k \in DOMAIN ddl :
        ddl[k].op = "ADD_COLUMN" =>
            ToLower(ddl[k].cols[1].name) \notin { ToLower(n) : n \in DOMAIN existing }

\* C9: for an existing table, the ADD COLUMN statements issued are, in
\* schema order, one per field that has no column of its name, mapped by
\* mapSRType, and none for a field that has one; they are all issued when
\* ensureTable returns nil, and no CREATE TABLE is issued.
C9_OneAddPerMissingField ==
    /\ ~Evolving => AddColumns = <<>>
    /\ Evolving =>
          /\ Len(AddColumns) <= Len(MissingFields)
          /\ \A k \in DOMAIN AddColumns :
                /\ AddColumns[k].cols = <<Col(MissingFields[k].name, mapSRType(MissingFields[k]))>>
                /\ AddColumns[k].target = fullName
                /\ (k < Len(AddColumns) => AddColumns[k].ok)
          /\ \A k \in DOMAIN ddl : ddl[k].op # "CREATE_TABLE"
          /\ Evolved => (Len(AddColumns) = Len(MissingFields)
                          /\ \A k \in DOMAIN AddColumns : AddColumns[k].ok)

C9_Witness ==
    /\ Evolved /\ Len(itSchema) = 3 /\ Len(AddColumns) = 2
    /\ AddColumns[1].cols[1].name = "c" /\ AddColumns[2].cols[1].name = "b"

\* C10 as stated: whenever ensureTable returns nil, also after a
\* caller-supplied DDL, every field of the schema has a column with its name
\* (up to letter case).
C10_EveryFieldHasColumn ==
    EnsureOk =>
        \A i \in DOMAIN itSchema :
            ToLower(itSchema[i].name) \in { ToLower(n) : n \in ColNames(tblCols) }

\* C10 amended: whenever ensureTable returns nil after creating or evolving
\* the table (no caller-supplied DDL), every field of the schema has a
\* column of its name.
C10_InferredFieldsHaveColumns ==
    (EnsureOk /\ TrimSpace(createDDL) = <<>>) =>
        /\ tblExists
        /\ \A i \in DOMAIN itSchema : itSchema[i].name \in ColNames(tblCols)

C10_Witness ==
    /\ pc = "begin" /\ TrimSpace(createDDL) = <<>> /\ Len(itSchema) = 3
    /\ \E k \in DOMAIN ddl : ddl[k].op = "CREATE_TABLE" /\ ddl[k].ok

\* the call infers the schema: no caller-supplied DDL
Inferred == TrimSpace(createDDL) = <<>>

\* cols continues old: same columns, names and types, in the same positions
Extends(cols, old) ==
    Len(cols) >= Len(old) /\ SubSeq(cols, 1, Len(old)) = old

\* C11: a call that infers the schema only adds to the table: every step
\* keeps the existing columns with their names and types, the only
\* statements are CREATE DATABASE, CREATE TABLE (for an absent table) and
\* ADD COLUMN, and no ADD COLUMN is issued for a name the table has, also
\* when the mapped type differs from the column's type.
C11_ColumnsOnlyGrow ==
    [][ Inferred =>
          /\ tblExists => (tblExists' /\ Extends(tblCols', tblCols))
          /\ \A k \in DOMAIN ddl' :
                /\ ddl'[k].op \in {"CREATE_DATABASE", "CREATE_TABLE", "ADD_COLUMN"}
                /\ ddl'[k].op = "ADD_COLUMN" => ddl'[k].cols[1].name \notin DOMAIN existing'
          /\ (ddl' # ddl /\ ddl'[Len(ddl')].op = "CREATE_TABLE") => ~tblExists
      ]_vars

C11_Witness ==
    /\ Inferred /\ Evolved
    /\ \E i \in DOMAIN itSchema :
          /\ itSchema[i].name = "c" /\ mapSRType(itSchema[i]) = "DATETIME"
          /\ existing["c"] = "VARCHAR"
    /\ AddColumns = <<>>
    /\ tblCols = <<Col("a", "bigint"), Col("b", "varchar"), Col("c", "varchar")>>

\* s has a character that is not white space
NonBlank(s) == \E i \in DOMAIN s : s[i] # " "

\* the positions of the inferred path: existence check, CREATE TABLE,
\* column read, ADD COLUMN loop
InferredPcs == {"exists", "create", "columns", "evolve"}

\* what C12 says of a call, given that its DDL text counts as supplied
ExplicitDDLOnly ==
    /\ pc \notin InferredPcs
    /\ \A k \in DOMAIN ddl :
          /\ ddl[k].op \in {"CREATE_DATABASE", "USER_DDL"}
          /\ ddl[k].op = "USER_DDL" =>
                (k = 2 /\ ddl[k].target = createDDL /\ (ddl[k].ok => EnsureOk))
    /\ existing = <<>> /\ fi = 0
    /\ EnsureFailed => result.cause \in {"config", "database", "cancelled"}
    /\ EnsureOk => (Len(ddl) = 2 /\ ddl[2].op = "USER_DDL" /\ ddl[2].ok)

\* C12 as stated: for every non-empty create_ddl the DDL is executed as
\* given and nothing else of ensureTable's table handling runs.
C12_NonEmptyDDLVerbatim == createDDL # <<>> => ExplicitDDLOnly

\* C12 amended: for every create_ddl that is not blank, ensureTable executes
\* exactly that text as its table statement and returns: no existence
\* check, no CREATE TABLE, no ADD COLUMN, no type mapping, and a repeated
\* or record field does not make it fail.
C12_NonBlankDDLVerbatim == NonBlank(createDDL) => ExplicitDDLOnly

C12_Witness ==
    /\ createDDL = <<"D", " ">> /\ HasComplex /\ pc = "begin"
    /\ ddl[2] = Stmt("USER_DDL", <<"D", " ">>, <<>>, "", TRUE)
    /\ tblCols = <<Col("a", "bigint")>>

\* C13: a call opens one transaction and no second one (none when it fails
\* before the load phase), sends every INSERT on it while it is open, calls Commit at
\* most once and only after end of data with every batch, the last partial
\* one included, inserted without error; a committed transaction is never
\* rolled back and a rolled-back one never committed.
C13_OneTransaction ==
    [][ /\ tx' # tx => \/ (tx = "none" /\ tx' = "open")
                        \/ (tx = "open" /\ tx' \in {"committed", "rolledback", "aborted"})
        /\ inserts' # inserts => (tx = "open" /\ tx' = "open" /\ commits = 0)
        /\ commits' <= 1
        /\ commits' # commits =>
              /\ streamEnded /\ batch = <<>>
              /\ \A k \in DOMAIN inserts : inserts[k].ok
              /\ InsertedRows(Len(inserts)) = QueryRows
              /\ (txRows = QueryRows \/ ctxDone)
        /\ tx' = "committed" => (commits' = 1 /\ rollbacks' = 0)
      ]_vars

C13_Witness ==
    /\ tx = "committed" /\ commits = 1 /\ pulled = 3 /\ batchSize = 2
    /\ Len(inserts) = 2 /\ ~havePrefetch

\* C14: once the caller's context is cancelled the call pulls no further row,
\* executes no further INSERT, commits nothing, and does not return success.
C14_CancelStopsCall ==
    [][ ctxDone =>
          /\ pulled' = pulled
          /\ inserts' = inserts
          /\ committed' = committed /\ tx' # "committed"
          /\ result'.done => result'.err # "nil"
      ]_vars

\* C15: a call that has ended returned either no error and the number of all
\* rows of the query result, or an error and 0 rows; the driver then returns
\* the table and that count, or an empty result with the error.
C15_AllOrNothing ==
    /\ result.done <=> pc = "done"
    /\ result.done =>
          LET e == Execute(table, result) IN
          \/ /\ result.err = "nil" /\ streamEnded
             /\ result.rows = pulled /\ result.rows = Len(committed)
             /\ e = [table |-> table, rows |-> pulled, err |-> "nil"]
          \/ /\ result.err # "nil" /\ result.rows = 0
             /\ e = [table |-> <<>>, rows |-> 0, err |-> result.err]

C15_Witness ==
    /\ Failed /\ total = 2 /\ Len(inserts) = 2 /\ ~inserts[2].ok
    /\ result.rows = 0 /\ Execute(table, result).rows = 0

\* C16: nothing is attempted twice and the first failure ends the call: a
\* statement the engine rejected is the last one sent and the call has
\* returned its error, no statement is sent a second time, the query is
\* submitted once and the peek made once, and after the error return
\* no row is pulled and no statement sent.
C16_FailFast ==
    [][ /\ \A k \in DOMAIN ddl' :
              ~ddl'[k].ok => (k = Len(ddl') /\ Failed' /\ inserts' = <<>> /\ tx' = "none")
        /\ \A k \in DOMAIN inserts' :
              ~inserts'[k].ok => (k = Len(inserts') /\ Failed' /\ commits' = 0)
        /\ \A i, j \in DOMAIN ddl' : ddl'[i] = ddl'[j] => i = j
        /\ \A i, j \in DOMAIN inserts' : inserts'[i] = inserts'[j] => i = j
        /\ result'.err # "nil" => pc' = "done"
        /\ pc' = "query" => pc = "query"
        /\ pc' = "peek" => pc \in {"query", "peek"}
        /\ pc = "peek" /\ pc' = "peek" => nextCalls' = nextCalls
        /\ Failed => UNCHANGED <<pulled, nextCalls, ddl, inserts, commits>>
      ]_vars

C16_Witness ==
    /\ Failed /\ Len(inserts) = 1 /\ ~inserts[1].ok /\ ~streamEnded
    /\ batch # <<>> /\ tx = "open" /\ \A k \in DOMAIN ddl : ddl[k].ok

\* C17: when the schema is still empty after the peek, whether the peek
\* returned a row or end of data, the call fails with the empty-schema error
\* and nothing was sent to the destination: no DDL, no transaction, no INSERT.
C17_EmptySchemaFails ==
    (peekErr \in {"nil", "Done"} /\ Len(itSchema) = 0) =>
        /\ Failed /\ result.err = "empty_schema" /\ result.rows = 0
        /\ ddl = <<>> /\ tx = "none" /\ inserts = <<>> /\ commits = 0
        /\ committed = <<>>

C17_Witness ==
    /\ peekErr = "nil" /\ havePrefetch /\ pulled = 1 /\ Len(itSchema) = 0
    /\ result = Failure("empty_schema", "", "")

\* C18: when the peek reached end of data and the schema is non-empty
\* afterwards, there is no prefetched row, no INSERT is sent, the call does
\* not fail for the missing rows (only a destination step can fail it), an
\* inferred table is created or evolved to hold every field, and a
\* successful call returns 0 rows.
C18_EmptyResultLoads ==
    (peekErr = "Done" /\ Len(itSchema) > 0) =>
        /\ ~havePrefetch /\ prefetch = 0 /\ pulled = 0
        /\ batch = <<>> /\ inserts = <<>>
        /\ Failed => result.err \in {"ensure", "insert"}
        /\ (EnsureOk /\ Inferred) =>
              /\ tblExists
              /\ \A i \in DOMAIN itSchema : itSchema[i].name \in ColNames(tblCols)
              /\ \/ \E k \in DOMAIN ddl : ddl[k].op = "CREATE_TABLE" /\ ddl[k].ok
                 \/ fi > Len(itSchema)
        /\ Succeeded => (result.rows = 0 /\ tx = "committed" /\ committed = <<>>)

C18_Witness ==
    /\ peekErr = "Done" /\ Len(itSchema) = 2 /\ Succeeded /\ result.rows = 0
    /\ nextCalls = 2 /\ inserts = <<>>
    /\ Len(ddl) = 2 /\ ddl[2].op = "CREATE_TABLE" /\ ddl[2].ok
    /\ Len(tblCols) = 2

\* the call has not yet entered ensureTable
BeforeEnsure == pc \in {"query", "peek", "ensure"}

\* C19: before ensureTable the call asks the stream for a row once if the
\* schema is empty right after the query was run and not at all if it is
\* populated; at most one row has left the stream when ensureTable starts.
C19_OnePeek ==
    [][ /\ (pc = "query" /\ pc' \notin {"query", "done"}) =>
              /\ pc' = "peek" <=> Len(itSchema') = 0
              /\ pc' = "ensure" <=> Len(itSchema') > 0
              /\ nextCalls' = 0 /\ pulled' = 0 /\ peekErr' = "unset"
        /\ (pc = "peek" /\ pc' # "peek") =>
              /\ pc' \in {"ensure", "done"}
              /\ nextCalls' = 1 /\ peekErr' # "unset"
        /\ BeforeEnsure' =>
              /\ nextCalls' = (IF peekErr' = "unset" THEN 0 ELSE 1)
              /\ pulled' = (IF peekErr' = "nil" THEN 1 ELSE 0)
              /\ havePrefetch' <=> pulled' = 1
      ]_vars

C19_Witness ==
    /\ pc = "ensure" /\ peekErr = "nil" /\ nextCalls = 1 /\ pulled = 1
    /\ prefetch = 1 /\ Len(itSchema) = 2

\* the identifier has no "."
Bare(t) == \A i \in DOMAIN t : t[i] # "."

\* t reads d.n with no "." in d
Splits(t, d, n) == Bare(d) /\ d \o <<".">> \o n = t

\* no database can be resolved: no database part in the identifier and no
\* default database
Unresolvable ==
    /\ dbname = <<>>
    /\ Bare(table) \/ Splits(table, <<>>, SubSeq(table, 2, Len(table)))

\* C20: "table" resolves to (default database, table), "database.table" to
\* (database, table), with the default database for an empty database part;
\* the statements sent name that database and table; when no database can
\* be resolved the call fails with a configuration error and nothing was
\* sent to the destination.
C20_ResolveTable ==
    /\ Bare(table) => (db = dbname /\ tbl = table)
    /\ \A i \in 0..Len(table) :
          LET d == SubSeq(table, 1, i)
              n == SubSeq(table, i + 2, Len(table))
          IN  Splits(table, d, n) =>
                 /\ tbl = n
                 /\ db = (IF d = <<>> THEN dbname ELSE d)
    /\ \A k \in DOMAIN ddl :
          /\ ddl[k].op = "CREATE_DATABASE" => ddl[k].target = db
          /\ ddl[k].op \in {"CREATE_TABLE", "ADD_COLUMN"} =>
                ddl[k].target = db \o <<".">> \o tbl
    /\ Unresolvable =>
          /\ pc \in {"query", "peek", "ensure", "done"}
          /\ ddl = <<>> /\ tx = "none" /\ inserts = <<>> /\ ~EnsureOk
          /\ EnsureFailed => result.cause = "config"

C20_Witness ==
    /\ table = <<".", "t">> /\ dbname = <<"s">> /\ pc = "begin"
    /\ ddl[1] = Stmt("CREATE_DATABASE", <<"s">>, <<>>, "", TRUE)
    /\ ddl[2].op = "CREATE_TABLE" /\ ddl[2].target = <<"s", ".", "t">>

\* C21: a request with a database override D and a bare table identifier T
\* is loaded into D.T: the database ensured is D, and the table statements
\* and the INSERTs name D.T.
C21_DatabaseOverride ==
    (req.database # <<>> /\ Bare(req.table)) =>
        LET T == DefaultTable(req.table)
            DT == req.database \o <<".">> \o T
        IN  /\ \A k \in DOMAIN ddl :
                  /\ ddl[k].op = "CREATE_DATABASE" => ddl[k].target = req.database
                  /\ ddl[k].op \in {"CREATE_TABLE", "ADD_COLUMN"} => ddl[k].target = DT
            /\ \A k \in DOMAIN inserts : inserts[k].target = DT
            /\ EnsureFailed => result.cause # "config"

\* the database and table a statement's table name denotes at the engine: a
\* bare name is looked up in the session's database (the one of the DSN),
\* d.n names database d, and an empty database part names none
NamedTable(t) ==
    IF Bare(t)
    THEN <<dbname, t>>
    ELSE LET k == CHOOSE i \in DOMAIN t : t[i] = "." /\ \A j \in 1..(i - 1) : t[j] # "."
         IN  <<SubSeq(t, 1, k - 1), SubSeq(t, k + 1, Len(t))>>

\* C22: every INSERT of a call names the database-qualified table that
\* ensureTable resolved and created or evolved, for the identifiers "table",
\* "database.table" and ".table".
C22_InsertsNameResolvedTable ==
    \A k \in DOMAIN inserts : NamedTable(inserts[k].target) = <<db, tbl>>

\* the Go types a statement argument may have (database/sql/driver.Value);
\* a value of another type cannot be stored in a column
Representable(v) ==
    v.go \in {"nil", "int64", "float64", "bool", "[]byte", "string", "time.Time"}

\* the argument of statement st bound for field j of its i-th row
ArgAt(st, i, j) == st.args[(i - 1) * Len(itSchema) + j]

\* C23: in every INSERT, for a field of any type, a value that cannot be
\* represented in the destination is bound as null and a value that can is
\* bound unchanged.
C23_UnrepresentableBoundNull ==
    \A k \in DOMAIN inserts :
        \A i \in DOMAIN inserts[k].rows :
            \A j \in DOMAIN itSchema :
                LET v == RowValues(inserts[k].rows[i])[j]
                IN  ArgAt(inserts[k], i, j) = (IF Representable(v) THEN v ELSE Nil)

\* C24: in every INSERT the column list is the schema's field names in
\* schema order, there is one group per row with one placeholder per field,
\* and the arguments are the rows' values in batch order and, within a row,
\* in schema order: rows x fields arguments.
C24_InsertShape ==
    \A k \in DOMAIN inserts :
        LET st == inserts[k] IN
        /\ Len(st.cols) = Len(itSchema)
        /\ \A j \in DOMAIN itSchema :
              st.cols[j].name = itSchema[j].name /\ st.cols[j].quote = "backquote"
        /\ Len(st.groups) = Len(st.rows)
        /\ \A i \in DOMAIN st.groups : st.groups[i] = [j \in DOMAIN itSchema |-> "?"]
        /\ Len(st.args) = Len(st.rows) * Len(itSchema)
        /\ \A i \in DOMAIN st.rows : \A j \in DOMAIN itSchema :
              /\ ArgAt(st, i, j).row = st.rows[i]
              /\ ArgAt(st, i, j).col = j
              /\ ArgAt(st, i, j).go = GoType(itSchema[j].type)
        /\ \A i \in 1..(Len(st.rows) - 1) : st.rows[i] < st.rows[i + 1]

C24_Witness ==
    /\ Len(itSchema) = 3 /\ Len(inserts) = 2
    /\ Len(inserts[1].rows) = 2 /\ Len(inserts[1].args) = 6
    /\ inserts[1].args[5] = Value("string", 2, 2)
    /\ inserts[2].rows = <<3, 4>>

\* C25: every successful load response holds the destination table name and
\* rows_loaded, equal to the number of rows loaded, also when that is 0.
C25_ResponseHasTableAndRows ==
    (resp.kind = "http" /\ resp.status = 200) =>
        /\ "starrocks_table" \in DOMAIN resp.body
        /\ resp.body["starrocks_table"] = table
        /\ "rows_loaded" \in DOMAIN resp.body
        /\ resp.body["rows_loaded"] = Len(committed)

\* the request was refused before the driver was invoked
Rejected == pc = "responded" /\ ~result.done

\* C26: the identifier passed to the loader is the request's, or "export"
\* when the request gives none, and a successful result reports exactly
\* that identifier.
C26_DefaultTableExport ==
    LET id == IF req.table = <<>> THEN <<"e", "x", "p", "o", "r", "t">> ELSE req.table
    IN  /\ (pc # "request" /\ ~Rejected) => table = id
        /\ (resp.kind = "http" /\ resp.status = 200) =>
              ("starrocks_table" \in DOMAIN resp.body /\ resp.body["starrocks_table"] = id)
        /\ (result.done /\ result.err = "nil") => Execute(table, result).table = id

C26_Witness ==
    /\ req.table = <<>> /\ resp.kind = "http" /\ resp.status = 200
    /\ resp.body = [message |-> "OK", starrocks_table |-> Export, rows_loaded |-> 2]

\* the CREATE TABLE statements sent so far
CreateTables == SelectSeq(ddl, LAMBDA st : st.op = "CREATE_TABLE")

\* C27: when ensureTable returns nil for an absent table and no
\* caller-supplied DDL, the schema is non-empty and of supported fields and
\* exactly one CREATE TABLE was sent: it names every field once in schema
\* order with its mapped type, its duplicate key and its hash key are the
\* first field's name, with 8 buckets and replication_num 1. For a table
\* that exists no CREATE TABLE is sent.
C27_OneCreateTable ==
    /\ (pc = "create") => ~tblExists
    /\ (Inferred /\ EnsureOk /\ fi > 0) => CreateTables = <<>>
    /\ (Inferred /\ EnsureOk /\ fi = 0) =>
          /\ Len(itSchema) > 0 /\ ~HasComplex
          /\ Len(ddl) = 2 /\ Len(CreateTables) = 1 /\ ddl[2] = CreateTables[1]
          /\ ddl[2].ok /\ ddl[2].target = db \o <<".">> \o tbl
          /\ Len(ddl[2].cols) = Len(itSchema)
          /\ \A j \in DOMAIN itSchema :
                /\ ddl[2].cols[j].name = itSchema[j].name
                /\ ddl[2].cols[j].type = mapSRType(itSchema[j])
          /\ ddl[2].key = [engine |-> "OLAP", duplicateKey |-> itSchema[1].name,
                           hashKey |-> itSchema[1].name, buckets |-> 8,
                           replication_num |-> "1"]

C27_Witness ==
    /\ Inferred /\ pc = "begin" /\ fi = 0 /\ Len(itSchema) = 3
    /\ ddl[2].op = "CREATE_TABLE" /\ ddl[2].key.hashKey = "a"
    /\ itSchema[3].name = "c" /\ tblCols = ddl[2].cols

\* the column type the claim names for a field type
ExpectedType(t) ==
    CASE t = "STRING" -> "VARCHAR(1024)"
      [] t = "BYTES" -> "VARBINARY(1024)"
      [] t = "INTEGER" -> "BIGINT"
      [] t = "FLOAT" -> "DOUBLE"
      [] t = "BOOLEAN" -> "BOOLEAN"
      [] t = "TIMESTAMP" -> "DATETIME"
      [] t = "DATETIME" -> "DATETIME"
      [] t = "DATE" -> "DATE"
      [] t = "TIME" -> "VARCHAR(64)"
      [] t = "NUMERIC" -> "DECIMAL(38,9)"
      [] t = "GEOGRAPHY" -> "VARCHAR(2048)"
      [] t = "JSON" -> "JSON"
      [] t \in {"BIGNUMERIC", "INTERVAL", "RECORD"} -> "VARCHAR(1024)"

\* C28: the type mapper gives every field type the column type listed for
\* it and bounded text for any other type, whether or not the field is
\* repeated; the columns of the statements sent carry these types, and no
\* call fails for a type other than a repeated or record field.
C28_TypeMapping ==
    /\ \A t \in FieldTypes : \A r \in BOOLEAN :
          mapSRType(Field("a", t, r)) = ExpectedType(t)
    /\ \A k \in DOMAIN ddl :
          ddl[k].op \in {"CREATE_TABLE", "ADD_COLUMN"} =>
              \A c \in DOMAIN ddl[k].cols :
                  \E j \in DOMAIN itSchema :
                      /\ itSchema[j].name = ddl[k].cols[c].name
                      /\ ddl[k].cols[c].type = ExpectedType(itSchema[j].type)
    /\ (Failed /\ result.cause = "unsupported") =>
          \E j \in DOMAIN itSchema : itSchema[j].type = "RECORD" \/ itSchema[j].repeated

C28_Witness ==
    /\ qschema = <<Field("a", "INTERVAL", FALSE)>> /\ pc = "begin"
    /\ ddl[2].op = "CREATE_TABLE" /\ ddl[2].ok
    /\ ddl[2].cols = <<Col("a", "VARCHAR(1024)")>>

\* C29: a request whose query or query_location is missing or empty is
\* refused, with status 400 by the server and exit code 1 by the job,
\* and the driver is never invoked for it: no query is run and nothing is
\* sent to the destination.
C29_RequiredFields ==
    (req.query = "" \/ req.location = "") =>
        /\ pc \in {"request", "responded"}
        /\ pc = "responded" =>
              /\ resp.kind = (IF runMode = "server" THEN "http" ELSE "exit")
              /\ resp.status = (IF runMode = "server" THEN 400 ELSE 1)
        /\ table = <<>> /\ ~result.done
        /\ itSchema = <<>> /\ nextCalls = 0 /\ pulled = 0
        /\ ddl = <<>> /\ tx = "none" /\ inserts = <<>> /\ commits = 0

C29_Witness ==
    /\ req.query = "q" /\ req.location = "" /\ runMode = "server"
    /\ pc = "responded" /\ resp.status = 400 /\ ddl = <<>>

\* the place of a position in the order of the phases
Phase(p) ==
    CASE p = "query" -> 1
      [] p = "peek" -> 2
      [] p = "ensure" -> 3
      [] p \in {"userddl", "exists"} -> 4
      [] p \in {"create", "columns"} -> 5
      [] p = "evolve" -> 6
      [] p = "begin" -> 7
      [] p \in {"loop", "flush"} -> 8
      [] p = "finalflush" -> 9
      [] p = "commit" -> 10
      [] p = "done" -> 11

\* C30: a call goes through query, peek, ensureDatabase, the table
\* statements, BeginTx, the inserts and the commit in this order; a statement
\* is sent to the destination only after the query was submitted with
\* success (its schema is known), CREATE DATABASE comes first, and the
\* transaction is opened and INSERTs are sent only after ensureTable has
\* returned nil, every DDL statement having succeeded.
C30_PhaseOrder ==
    [][ /\ Phase(pc') >= Phase(pc)
        /\ ddl' # ddl =>
              /\ Phase(pc) \in 3..6 /\ Len(itSchema) > 0
              /\ tx = "none" /\ tx' = "none" /\ inserts' = <<>>
              /\ (ddl = <<>>) <=> (ddl'[1].op = "CREATE_DATABASE" /\ pc = "ensure")
              /\ \A k \in DOMAIN ddl : ddl[k].ok
        /\ (tx' # "none" \/ inserts' # <<>>) =>
              /\ Phase(pc) >= 7
              /\ ddl' # <<>> /\ \A k \in DOMAIN ddl' : ddl'[k].ok
              /\ tblExists' /\ ddl' = ddl
              /\ result'.err \notin {"query", "fetch", "empty_schema", "ensure"}
        /\ commits' # commits => (pc = "commit" /\ inserts' = inserts)
      ]_vars

C30_Witness ==
    /\ Succeeded /\ peekErr = "nil" /\ Len(AddColumns) = 1 /\ Len(ddl) = 2
    /\ Len(inserts) = 2 /\ commits = 1 /\ tx = "committed"

\* ------------------------------------------------------- connection pool
\* connections of the pool held by the call: a sql.Tx keeps its connection
\* from BeginTx until Commit or Rollback closes it; the DDL statements run on
\* s.db and give their connection back when they return
HeldConns == IF tx = "open" THEN 1 ELSE 0

\* C31: after a load call returns, with success or with any error, the
\* transaction it opened is closed (committed or rolled back) and the call
\* holds no connection of the pool.
C31_ConnectionReleased ==
    (pc = "done" /\ result.done) => (tx # "open" /\ HeldConns = 0)

\* -------------------------------------------- DDL and the load transaction
\* the columns of the CREATE TABLE and ADD COLUMN statements that succeeded
\* are columns of the table
StmtColsKept ==
    \A k \in DOMAIN ddl :
       (ddl[k].ok /\ ddl[k].op \in {"CREATE_TABLE", "ADD_COLUMN"}) =>
          \A j \in DOMAIN ddl[k].cols :
             \E i \in DOMAIN tblCols : tblCols[i] = ddl[k].cols[j]

\* C34: the reconciliation DDL is not part of the load transaction: when a
\* call fails during row loading after ensureTable succeeded, the database,
\* the table and the columns the call created or added are still there (with
\* an inferred schema: a column for every field), and none of its rows is.
C34_DDLSurvivesFailedLoad ==
    (Failed /\ result.err = "insert") =>
       /\ committed = <<>>
       /\ dbExists /\ tblExists
       /\ \A k \in DOMAIN ddl : ddl[k].ok
       /\ StmtColsKept
       /\ Inferred => \A i \in DOMAIN itSchema : itSchema[i].name \in ColNames(tblCols)

C34_Witness ==
    /\ Failed /\ result.err = "insert" /\ result.cause = "database"
    /\ Len(CreateTables) = 0 /\ Len(AddColumns) = 2 /\ Len(tblCols) = 3
    /\ Len(inserts) = 2 /\ inserts[1].ok /\ ~inserts[2].ok /\ committed = <<>>

\* ------------------------------------------------------- the result stream
\* C36: the stream is consumed in a single pass: once it.Next has returned
\* iterator.Done or an error, the loader does not call it.Next again, also
\* when it was the schema peek that reached end-of-data.
C36_NoPullAfterEnd ==
    [][streamEnded => nextCalls' = nextCalls]_vars

\* C37: no INSERT with zero rows is executed: the flush at end of data
\* happens only with a non-empty batch, and a load of zero rows sends no
\* INSERT, yet opens and commits its transaction and returns 0.
C37_NoEmptyInsert ==
    /\ \A k \in DOMAIN inserts : Len(inserts[k].rows) > 0
    /\ pc \in {"flush", "finalflush"} => Len(batch) > 0
    /\ (Succeeded /\ pulled = 0) =>
          /\ inserts = <<>>
          /\ tx = "committed" /\ commits = 1
          /\ result.rows = 0

C37_Witness ==
    /\ Succeeded /\ pulled = 0 /\ peekErr = "unset" /\ nextCalls = 1
    /\ inserts = <<>> /\ tx = "committed" /\ commits = 1 /\ result.rows = 0

\* ------------------------------------------------------------ termination
\* the steps of the call itself, without its environment
CallStep ==
    \/ RunQuery \/ Peek \/ EnsureDatabase \/ ApplyUserDDL \/ TableExists \/ CreateTable
    \/ GetExistingColumns \/ EvolveField \/ BeginTx \/ NextRow \/ FlushBatch \/ FlushLast
    \/ Commit

\* calls on one table, for the schemas of at most two fields
InitLive ==
    /\ pc = "query"
    /\ dbname = <<"s">>
    /\ table = <<"t">>
    /\ createDDL \in DDLTexts
    /\ batchEnv \in { Itoa(n) : n \in 1..MaxBatch }
    /\ batchSize = DefaultBatchSize
    /\ qschema \in { s \in Schemas : Len(s) <= 2 }
    /\ nullRow = 0
    /\ req = Request("q", "l", table, <<>>)
    /\ runMode = "server"
    /\ resp = NoResponse
    /\ peer = NoPeer
    /\ LoadInit

\* every blocking step of the call returns
SpecLive == InitLive /\ [][Next]_vars /\ WF_vars(CallStep)

\* the calls of it.Next made by the loop of insertRows, and the rows it got
LoopCalls == nextCalls - (IF peekErr = "unset" THEN 0 ELSE 1)
LoopRows == pulled - (IF havePrefetch THEN 1 ELSE 0)

\* C38: provided every blocking step returns, a load call over a finite
\* stream terminates, by committing or by returning an error; the loop pulls
\* no more than the rows of the stream and one end-of-data read.
C38_Terminates ==
    /\ [](LoopCalls <= LoopRows + 1 /\ LoopRows <= MaxRows)
    /\ <>(pc = "done" /\ result.done)

C38_Witness ==
    /\ Succeeded /\ pulled = MaxRows /\ LoopCalls = MaxRows + 1 /\ commits = 1

\* ------------------------------------------------------------- batch size
\* v writes the positive integer n in decimal: an optional plus sign, any
\* number of leading zeros, then the digits of n
Spells(v, n) ==
    \E sign \in {<<>>, <<"+">>}, z \in 0..Len(v) :
       v = sign \o [i \in 1..z |-> "0"] \o Itoa(n)

\* v writes some positive integer: digits after an optional plus sign, not
\* all of them zero
WritesPositive(v) ==
    LET ds == IF v # <<>> /\ v[1] = "+" THEN Tail(v) ELSE v
    IN  /\ ds # <<>>
        /\ \A i \in DOMAIN ds : ds[i] \in {"0", "1", "2", "3", "4", "5", "6", "7", "8", "9"}
        /\ \E i \in DOMAIN ds : ds[i] # "0"

\* C39: the batch capacity insertRows works with is a positive integer: the
\* value of STARROCKS_BATCH_SIZE when that text is an integer greater than
\* 0, and 1000 when it is unset, empty, not a number, zero or negative.
C39_BatchCapacity ==
    tx # "none" =>
       /\ batchSize > 0
       /\ IF WritesPositive(batchEnv)
          THEN Spells(batchEnv, batchSize)
          ELSE batchSize = 1000

C39_Witness ==
    /\ Succeeded /\ batchEnv = <<"-", "2">> /\ batchSize = 1000
    /\ pulled = MaxRows /\ Len(inserts) = 1 /\ Len(inserts[1].rows) = MaxRows

\* ------------------------------------------------------ a concurrent call
\* The second call runs the same code on the same StarRocksService (same
\* dbname, same table argument, no create_ddl) with its own query, whose
\* schema is known after q.Read, and its own context, which is not
\* cancelled. It shares the destination with the first call.
MaxPeerRows == 2

\* the variables only the first call and its caller write
callVars == <<pc, ctxDone, reqVars, inputVars, streamVars, evolveVars, ddl, tx, txErr,
              batch, total, inserts, txRows, commits, rollbacks, result>>

PeerOutcomes == {"ok", "fail"}

\* the second call returns (0, err)
PeerFail(p, kind, cause, fname) ==
    [p EXCEPT !.pc = "done", !.result = Failure(kind, cause, fname)]

\* a DDL statement of the second call, as sent
PeerSent(p, st) == [p EXCEPT !.ddl = Append(@, st)]

\* ensureTable of the second call: parseDBTable and ensureDatabase
PeerEnsureDatabase ==
    /\ peer.pc = "ensure"
    /\ LET p == [peer EXCEPT !.seq = EnsureOk, !.cols0 = tblCols] IN
       IF table = <<>> \/ TrimSpace(db) = <<>>
       THEN peer' = PeerFail(p, "ensure", "config", "") /\ UNCHANGED dbExists
       ELSE \E o \in PeerOutcomes :
            LET q == PeerSent(p, Stmt("CREATE_DATABASE", db, <<>>, "", o = "ok")) IN
            IF o = "ok"
            THEN dbExists' = TRUE /\ peer' = [q EXCEPT !.pc = "exists"]
            ELSE peer' = PeerFail(q, "ensure", "database", "") /\ UNCHANGED dbExists
    /\ UNCHANGED <<callVars, tblExists, tblCols, committed>>

\* tableExists of the second call
PeerTableExists ==
    /\ peer.pc = "exists"
    /\ \E o \in PeerOutcomes :
         peer' = IF o = "ok"
                 THEN [peer EXCEPT !.pc = ExistsPc(tblExists)]
                 ELSE PeerFail(peer, "ensure", "database", "")
    /\ UNCHANGED <<callVars, dbExists, tblExists, tblCols, committed>>

\* ensureTable of the second call: its lookup did not find the table
PeerCreateTable ==
    /\ peer.pc = "create"
    /\ IF Len(peer.schema) = 0
       THEN /\ peer' = PeerFail(peer, "ensure", "empty_schema", "")
            /\ UNCHANGED <<tblExists, tblCols>>
       ELSE IF FirstComplex(peer.schema) # 0
       THEN /\ peer' = PeerFail(peer, "ensure", "unsupported",
                                peer.schema[FirstComplex(peer.schema)].name)
            /\ UNCHANGED <<tblExists, tblCols>>
       ELSE \E o \in PeerOutcomes :
            LET q == PeerSent(peer, Stmt("CREATE_TABLE", fullName, CreateCols(peer.schema),
                                         TableModel(peer.schema), o = "ok")) IN
            IF o = "ok"
            THEN /\ IF tblExists
                    THEN UNCHANGED <<tblExists, tblCols>>
                    ELSE tblExists' = TRUE /\ tblCols' = CreateCols(peer.schema)
                 /\ peer' = [q EXCEPT !.pc = "begin"]
            ELSE /\ peer' = PeerFail(q, "ensure", "database", "")
                 /\ UNCHANGED <<tblExists, tblCols>>
    /\ UNCHANGED <<callVars, dbExists, committed>>

\* getExistingColumns of the second call
PeerGetExistingColumns ==
    /\ peer.pc = "columns"
    /\ \E o \in PeerOutcomes :
         peer' = IF o = "ok"
                 THEN [peer EXCEPT !.existing = ColumnMap(tblCols), !.fi = 1,
                                   !.pc = EvolvePcOf(peer.schema, 1)]
                 ELSE PeerFail(peer, "ensure", "database", "")
    /\ UNCHANGED <<callVars, dbExists, tblExists, tblCols, committed>>

\* evolveSchema of the second call: one iteration of its loop
PeerEvolveField ==
    /\ peer.pc = "evolve"
    /\ LET f == peer.schema[peer.fi]
           next == [peer EXCEPT !.fi = @ + 1, !.pc = EvolvePcOf(peer.schema, peer.fi + 1)]
       IN
       IF IsComplex(f)
       THEN peer' = PeerFail(peer, "ensure", "unsupported", f.name) /\ UNCHANGED tblCols
       ELSE IF HasColumn(peer.existing, f)
       THEN peer' = next /\ UNCHANGED tblCols
       ELSE \E o \in PeerOutcomes :
            /\ o = "ok" => EngineAddsColumn(tblCols, f.name)
            /\ LET st == Stmt("ADD_COLUMN", fullName, <<Col(f.name, mapSRType(f))>>, "",
                              o = "ok") IN
               IF o = "ok"
               THEN /\ tblCols' = Append(tblCols, Col(f.name, mapSRType(f)))
                    /\ peer' = PeerSent(next, st)
               ELSE /\ peer' = PeerFail(PeerSent(peer, st), "ensure", "database", "")
                    /\ UNCHANGED tblCols
    /\ UNCHANGED <<callVars, dbExists, tblExists, committed>>

\* insertRows of the second call: BeginTx and the batch size
PeerBeginTx ==
    /\ peer.pc = "begin"
    /\ \E o \in PeerOutcomes :
         peer' = IF o = "ok"
                 THEN [peer EXCEPT !.tx = "open", !.txErr = "nil",
                                   !.batchSize = EffectiveBatchSize(batchEnv),
                                   !.pc = "loop"]
                 ELSE PeerFail(peer, "insert", "database", "")
    /\ UNCHANGED <<callVars, dbExists, tblExists, tblCols, committed>>

\* row k of the second call's stream
PeerRow(k) == 0 - k

\* insertRows of the second call returns (0, err) after BeginTx
PeerInsertRowsFail(p, cause) ==
    PeerFail(IF DeferredRollbackOf(p.txErr) /\ p.tx = "open"
             THEN [p EXCEPT !.tx = "rolledback", !.txRows = <<>>]
             ELSE p,
             "insert", cause, "")

\* it.Next in the loop of the second call
PeerNextRow ==
    /\ peer.pc = "loop"
    /\ \/ /\ ~peer.ended
          /\ peer.pulled < MaxPeerRows
          /\ LET b == Append(peer.batch, PeerRow(peer.pulled + 1)) IN
             peer' = [peer EXCEPT !.pulled = @ + 1, !.batch = b,
                                  !.pc = IF Len(b) >= peer.batchSize THEN "flush"
                                         ELSE "loop"]
       \/ peer' = [peer EXCEPT !.ended = TRUE, !.pc = AtDonePc(peer.batch)]
       \/ /\ ~peer.ended
          /\ peer' = PeerInsertRowsFail([peer EXCEPT !.ended = TRUE], "warehouse")
    /\ UNCHANGED <<callVars, dbExists, tblExists, tblCols, committed>>

\* tx.ExecContext of a batch of the second call, in the loop or at end of
\* data
PeerFlush ==
    /\ peer.pc \in {"flush", "finalflush"}
    /\ \E o \in PeerOutcomes :
         LET p == [peer EXCEPT !.inserts = Append(@, [rows |-> peer.batch, ok |-> o = "ok"])]
         IN  peer' = IF ExecFailed(o)
                     THEN PeerInsertRowsFail(p, "database")
                     ELSE [p EXCEPT !.txRows = IF o = "ok" THEN @ \o peer.batch ELSE @,
                                    !.total = NewTotal(@, peer.batch),
                                    !.batch = <<>>,
                                    !.pc = IF peer.pc = "flush" THEN "loop" ELSE "commit"]
    /\ UNCHANGED <<callVars, dbExists, tblExists, tblCols, committed>>

\* tx.Commit of the second call
PeerCommit ==
    /\ peer.pc = "commit"
    /\ \E o \in PeerOutcomes :
         IF o = "ok"
         THEN /\ committed' = committed \o peer.txRows
              /\ peer' = [peer EXCEPT !.tx = "committed", !.txRows = <<>>, !.pc = "done",
                                      !.result = Success(peer.total)]
         ELSE /\ peer' = PeerFail([peer EXCEPT !.tx = "aborted", !.txRows = <<>>],
                                  "insert", "database", "")
              /\ UNCHANGED committed
    /\ UNCHANGED <<callVars, dbExists, tblExists, tblCols>>

\* schemas of the two calls
PairSchemas ==
    { <<Field("a", "INTEGER", FALSE)>>,
      <<Field("a", "INTEGER", FALSE), Field("b", "STRING", FALSE)>> }

InitPair ==
    /\ pc = "query"
    /\ dbname = <<"s">>
    /\ table = <<"t">>
    /\ createDDL \in {<<>>, <<"D", " ">>}
    /\ batchEnv = Itoa(MaxBatch)
    /\ batchSize = DefaultBatchSize
    /\ qschema \in PairSchemas
    /\ nullRow = 0
    /\ req = Request("q", "l", table, <<>>)
    /\ runMode = "server"
    /\ resp = NoResponse
    /\ peer \in { PeerStart(s) : s \in PairSchemas }
    /\ LoadInit

NextPair ==
    \/ Next
    \/ PeerEnsureDatabase
    \/ PeerTableExists
    \/ PeerCreateTable
    \/ PeerGetExistingColumns
    \/ PeerEvolveField
    \/ PeerBeginTx
    \/ PeerNextRow
    \/ PeerFlush
    \/ PeerCommit

SpecPair == InitPair /\ [][NextPair]_vars

\* ------------------------------------------------------------ idempotence
\* the second call runs ensureTable after the first call's ensureTable has
\* returned nil, with the same inferred schema
SecondRun == peer.seq /\ Inferred /\ peer.schema = itSchema

\* C35: reconciliation with an inferred schema is idempotent: a second
\* ensureTable with the same schema and table sends no CREATE TABLE and no
\* ADD COLUMN and leaves the columns of the table as they were; its
\* ensureDatabase finds the database and changes nothing.
C35_EnsureIdempotent ==
    SecondRun =>
       /\ \A k \in DOMAIN peer.ddl :
             /\ peer.ddl[k].op = "CREATE_DATABASE"
             /\ k = 1
       /\ peer.pc # "create"
       /\ dbExists /\ tblExists
       /\ tblCols = peer.cols0

C35_Witness ==
    /\ SecondRun /\ Len(itSchema) = 2 /\ Len(CreateTables) = 1
    /\ peer.pc = "begin" /\ peer.fi = 3 /\ Len(peer.ddl) = 1 /\ peer.ddl[1].ok
    /\ Len(tblCols) = 2

\* ----------------------------------------------- concurrent reconciliation
\* ensureTable of the second call has returned nil
PeerEnsureOk ==
    \/ peer.pc \in {"begin", "loop", "flush", "finalflush", "commit"}
    \/ peer.pc = "done" /\ peer.result.err \in {"nil", "insert"}

\* every field of schema s has a column of its name
Covered(s) == \A i \in DOMAIN s : s[i].name \in ColNames(tblCols)

\* the table has a column of name n, or of a name the engine takes for n,
\* that the map ex, read earlier, does not have
AddedSince(ex, n) ==
    \E m \in ColNames(tblCols) : ToLower(m) = ToLower(n) /\ m \notin DOMAIN ex

\* C32: two calls with inferred schemas reconcile the same table
\* concurrently: under every interleaving, a call whose ensureTable returns
\* nil has a column for every field of its schema, and no ADD COLUMN of a call
\* is rejected because of a column the other call added meanwhile.
C32_ConcurrentReconcile ==
    /\ [](Inferred => /\ EnsureOk => Covered(itSchema)
                      /\ PeerEnsureOk => Covered(peer.schema))
    /\ [][ /\ (Inferred /\ pc = "evolve" /\ pc' = "done" /\ ddl' # ddl) =>
                ~AddedSince(existing, itSchema[fi].name)
           /\ (Inferred /\ peer.pc = "evolve" /\ peer'.pc = "done" /\ peer'.ddl # peer.ddl) =>
                ~AddedSince(peer.existing, peer.schema[peer.fi].name)
         ]_vars

\* C32 as it holds: a call whose existence check found the table, and which
\* therefore went through evolveSchema, has a column for every field of its
\* schema once its ensureTable has returned nil, under every interleaving.
C32_EvolvedCallCovered ==
    Inferred =>
       /\ (EnsureOk /\ fi > 0) => Covered(itSchema)
       /\ (PeerEnsureOk /\ peer.fi > 0) => Covered(peer.schema)

C32_Witness ==
    /\ Inferred /\ EnsureOk /\ fi = 3 /\ Len(itSchema) = 2 /\ Len(AddColumns) = 0
    /\ PeerEnsureOk /\ peer.fi = 3 /\ ~peer.seq
    /\ Len(peer.ddl) = 2 /\ peer.ddl[2].op = "ADD_COLUMN" /\ peer.ddl[2].ok

\* ------------------------------------------------------- concurrent loads
PeerSucceeded == peer.pc = "done" /\ peer.result.done /\ peer.result.err = "nil"

\* how often row r is in the table
Copies(r) == Cardinality({ i \in DOMAIN committed : committed[i] = r })

\* neither call has sent a statement that creates the table or adds a
\* column, and the table has a column for every field of both schemas: the
\* table was there before the calls, with columns covering their schemas
CoveringTable ==
    /\ Inferred /\ tblExists
    /\ Covered(qschema) /\ Covered(peer.schema)
    /\ \A k \in DOMAIN ddl : ddl[k].op = "CREATE_DATABASE"
    /\ \A k \in DOMAIN peer.ddl : peer.ddl[k].op = "CREATE_DATABASE"

\* C33: calls that load concurrently into an existing table whose columns
\* cover their schemas do not affect one another: the table holds exactly
\* the rows of the calls that have succeeded, each row of their streams
\* once, a successful call reports the number of rows of its own stream, and
\* a call that failed or has not committed has no row in the table.
C33_IndependentLoads ==
    CoveringTable =>
       /\ \A r \in 1..MaxRows :
             Copies(r) = IF Succeeded /\ r <= pulled THEN 1 ELSE 0
       /\ \A k \in 1..MaxPeerRows :
             Copies(PeerRow(k)) = IF PeerSucceeded /\ k <= peer.pulled THEN 1 ELSE 0
       /\ Len(committed) = (IF Succeeded THEN pulled ELSE 0)
                           + (IF PeerSucceeded THEN peer.pulled ELSE 0)
       /\ Succeeded => result.rows = pulled
       /\ PeerSucceeded => peer.result.rows = peer.pulled

C33_Witness ==
    /\ CoveringTable /\ ~peer.seq
    /\ Succeeded /\ pulled = 3 /\ result.rows = 3 /\ committed = <<1, 2, 3>>
    /\ peer.pc = "done" /\ peer.result.err = "insert" /\ peer.pulled = 2
    /\ Len(peer.inserts) = 1 /\ peer.inserts[1].ok /\ peer.tx = "aborted"

====
